---- MODULE Spec2Model ----
(***************************************************************************)
(* Model of salt/grains/disks.py: the disks() grain and its three platform *)
(* branches _freebsd_geom, _linux_disks and _windows_disks.                *)
(*                                                                         *)
(* Text is a sequence of tokens.  A token is one character, except that a  *)
(* word the code never looks inside (an attribute key such as "descr", a   *)
(* path segment, a table header word) is a single token.  No attribute key *)
(* of _geomconsts is a substring of another, so a regular-expression match *)
(* of a key is a match of its token.                                       *)
(***************************************************************************)
EXTENDS Integers, Sequences, FiniteSets, TLC

VARIABLES
    platform,   \* what salt.utils.platform reports for the host
    geomOut,    \* text that `geom disk list` prints (cmd.run)
    sysfs,      \* glob result and content of each rotational flag file
    cmdret,     \* result of the wmic command (cmd.run_all)
    pc,         \* position in disks(): "call", a branch's loop, "done", "raised"
    loop,       \* the sequence the running for-loop iterates over
    pos,        \* index of the next element of loop
    ret,        \* the inventory under construction, then the returned value
    parsed,     \* the dict tmp of each parse_geom_attribs call that got a name
    error       \* the exception that left disks(), or "none"

vars == <<platform, geomOut, sysfs, cmdret, pc, loop, pos, ret, parsed, error>>

----------------------------------------------------------------------------
(* Bounds of the explored inputs *)

MaxGeomLines == 4
MaxFieldLines == 3
MaxEntries == 2
MaxRows == 2

----------------------------------------------------------------------------
(* Python values and str methods used by the module *)

None == [t |-> "None"]
PyInt(n) == [t |-> "int", n |-> n]
PyStr(s) == [t |-> "str", s |-> s]

NL == "\n"
Whitespace == {" ", "\t", NL}
Digits == {"0", "1", "2", "3", "4", "5", "6", "7", "8", "9"}

DigitVal(c) ==
    CASE c = "0" -> 0 [] c = "1" -> 1 [] c = "2" -> 2 [] c = "3" -> 3
      [] c = "4" -> 4 [] c = "5" -> 5 [] c = "6" -> 6 [] c = "7" -> 7
      [] c = "8" -> 8 [] c = "9" -> 9

SeqsUpTo(S, n) == UNION {[1..k -> S] : k \in 0..n}

Range(s) == {s[k] : k \in DOMAIN s}

\* s[from:] of a token sequence (from is 1-based)
Tail_from(s, from) == SubSeq(s, from, Len(s))

\* whether sep occurs in s at position k
OccursAt(s, sep, k) ==
    /\ k + Len(sep) - 1 <= Len(s)
    /\ \A j \in 1..Len(sep) : s[k + j - 1] = sep[j]

\* str.find: the leftmost position of sep in s, 0 when there is none
Find(s, sep) ==
    LET hits == {k \in 1..Len(s) : OccursAt(s, sep, k)}
    IN  IF hits = {} THEN 0 ELSE CHOOSE k \in hits : \A h \in hits : k <= h

\* str.split(sep) with an explicit separator: leftmost, non-overlapping;
\* the empty string splits into one empty piece
RECURSIVE StrSplit(_, _)
StrSplit(s, sep) ==
    LET k == Find(s, sep)
    IN  IF k = 0 THEN <<s>>
        ELSE <<SubSeq(s, 1, k - 1)>> \o StrSplit(Tail_from(s, k + Len(sep)), sep)

\* str.join
RECURSIVE StrJoin(_, _)
StrJoin(sep, parts) ==
    IF parts = <<>> THEN <<>>
    ELSE IF Len(parts) = 1 THEN parts[1]
    ELSE parts[1] \o sep \o StrJoin(sep, Tail(parts))

\* str.strip() of surrounding whitespace
RECURSIVE LStrip(_)
LStrip(s) ==
    IF s # <<>> /\ s[1] \in Whitespace THEN LStrip(Tail(s)) ELSE s

RECURSIVE RStrip(_)
RStrip(s) ==
    IF s # <<>> /\ s[Len(s)] \in Whitespace
    THEN RStrip(SubSeq(s, 1, Len(s) - 1)) ELSE s

\* value of a digit string read in base 10
RECURSIVE Base10(_)
Base10(s) ==
    IF s = <<>> THEN 0
    ELSE 10 * Base10(SubSeq(s, 1, Len(s) - 1)) + DigitVal(s[Len(s)])

\* str.isdigit: non-empty and every character a digit
IsDigit(s) == s # <<>> /\ \A k \in DOMAIN s : s[k] \in Digits

\* str.startswith
StartsWith(s, prefix) == OccursAt(s, prefix, 1)

\* int(data) of a str: surrounding whitespace and one sign are accepted;
\* anything else raises ValueError, given here as None
IntOrError(data) ==
    LET body == RStrip(LStrip(data))
        signed == body # <<>> /\ body[1] \in {"+", "-"}
        digits == IF signed THEN Tail(body) ELSE body
    IN  IF ~IsDigit(digits) THEN None
        ELSE PyInt(IF signed /\ body[1] = "-" THEN 0 - Base10(digits)
                   ELSE Base10(digits))

----------------------------------------------------------------------------
(* class _geomconsts *)

GEOMNAME == "Geom name"
MEDIASIZE == "Mediasize"
SECTORSIZE == "Sectorsize"
STRIPESIZE == "Stripesize"
STRIPEOFFSET == "Stripeoffset"
DESCR == "descr"
LUNID == "lunid"
LUNNAME == "lunname"
IDENT == "ident"
ROTATIONRATE == "rotationrate"

\* _geomconsts._aliases
HasAlias(attrib) == attrib \in {DESCR, IDENT, ROTATIONRATE, LUNID}

Alias(attrib) ==
    CASE attrib = DESCR -> "device_model"
      [] attrib = IDENT -> "serial_number"
      [] attrib = ROTATIONRATE -> "media_RPM"
      [] attrib = LUNID -> "WWN"

\* _geomconsts._datatypes.get(attrib): a str tag, a (tag, pattern) tuple, or
\* None.  kind is the Python type of the entry.
Datatype(attrib) ==
    CASE attrib = MEDIASIZE -> [kind |-> "tuple", tag |-> "re_int"]
      [] attrib \in {SECTORSIZE, STRIPESIZE, STRIPEOFFSET, ROTATIONRATE} ->
             [kind |-> "str", tag |-> "try_int"]
      [] OTHER -> [kind |-> "NoneType", tag |-> "None"]

\* _geom_attribs: the values of the public names of _geomconsts.  Every
\* attribute writes only its own key and its own alias, so the order in
\* which the class dictionary lists them does not affect the result.
geom_attribs ==
    <<GEOMNAME, MEDIASIZE, SECTORSIZE, STRIPESIZE, STRIPEOFFSET,
      DESCR, LUNID, LUNNAME, IDENT, ROTATIONRATE>>

----------------------------------------------------------------------------
(* _datavalue *)

\* re.search(r'(\d+)', data).group(1): the leftmost maximal digit run
FirstDigitRun(data) ==
    LET starts == {k \in 1..Len(data) : data[k] \in Digits}
        a == CHOOSE k \in starts : \A h \in starts : k <= h
        ends == {e \in a..Len(data) :
                    /\ \A j \in a..e : data[j] \in Digits
                    /\ (e = Len(data) \/ data[e + 1] \notin Digits)}
    IN  IF starts = {} THEN <<>> ELSE SubSeq(data, a, CHOOSE e \in ends : TRUE)

\* `datatype is tuple` compares the entry with the type object tuple itself;
\* it is an identity test, which no entry of _datatypes passes.
IsTheTupleType(datatype) == datatype.kind = "type"

_datavalue(datatype, data) ==
    IF datatype.kind = "str" /\ datatype.tag = "try_int"
    THEN IntOrError(data)
    ELSE IF IsTheTupleType(datatype) /\ datatype.tag = "re_int"
    THEN (IF FirstDigitRun(data) # <<>>
          THEN IntOrError(FirstDigitRun(data)) ELSE None)
    ELSE PyStr(data)

----------------------------------------------------------------------------
(* _freebsd_geom.parse_geom_attribs *)

NoMatch == [t |-> "NoMatch"]

\* re.search(r'{attrib}:\s(.*)', line): the leftmost place anywhere in the
\* line where the key, a colon and one whitespace character follow each
\* other; group(1) is the rest of the line.
ReSearch(attrib, line) ==
    LET hits == {k \in 1..Len(line) :
                    /\ k + 2 <= Len(line)
                    /\ line[k] = attrib
                    /\ line[k + 1] = ":"
                    /\ line[k + 2] \in Whitespace}
        k0 == CHOOSE k \in hits : \A h \in hits : k <= h
    IN  IF hits = {} THEN NoMatch ELSE PyStr(Tail_from(line, k0 + 3))

\* dict item assignment d[key] = value
DictSet(d, key, value) ==
    [k \in DOMAIN d \cup {key} |-> IF k = key THEN value ELSE d[k]]

\* dict without key (the dict left by d.pop(key))
DictDel(d, key) == [k \in DOMAIN d \ {key} |-> d[k]]

EmptyDict == [k \in {} |-> None]

\* a variant of StoreAttrib that leaves out the alias of a failed coercion
StoreAttribNoAliasForNone(tmp, attrib, value) ==
    IF HasAlias(attrib) /\ value # None
    THEN DictSet(DictSet(tmp, attrib, value), Alias(attrib), value)
    ELSE DictSet(tmp, attrib, value)

\* lines 109-111: tmp[attrib] = value, and the alias when there is one
StoreAttrib(tmp, attrib, value) ==
    IF HasAlias(attrib)
    THEN DictSet(DictSet(tmp, attrib, value), Alias(attrib), value)
    ELSE DictSet(tmp, attrib, value)

\* lines 104-111: the inner loop over _geom_attribs for one line
RECURSIVE ScanAttribs(_, _, _)
ScanAttribs(tmp, line, a) ==
    IF a > Len(geom_attribs) THEN tmp
    ELSE LET attrib == geom_attribs[a]
             search == ReSearch(attrib, line)
         IN  IF search = NoMatch THEN ScanAttribs(tmp, line, a + 1)
             ELSE ScanAttribs(
                     StoreAttrib(tmp, attrib,
                                 _datavalue(Datatype(attrib), search.s)),
                     line, a + 1)

\* lines 102-111: the outer loop over device.split('\n')
RECURSIVE ScanLines(_, _, _)
ScanLines(tmp, lines, l) ==
    IF l > Len(lines) THEN tmp
    ELSE ScanLines(ScanAttribs(tmp, lines[l], 1), lines, l + 1)

GeomAttribs(device) == ScanLines(EmptyDict, StrSplit(device, <<NL>>), 1)

\* a variant of IsOptical that compares the whole name
IsOpticalExact(name) == name = <<"c", "d">>

\* line 114: name.startswith('cd')
IsOptical(name) == StartsWith(name, <<"c", "d">>)

\* a variant of ReportsSSD that tests falsiness: `not tmp.get(ROTATIONRATE)`
ReportsSSDFalsy(tmp) ==
    \/ ROTATIONRATE \notin DOMAIN tmp
    \/ tmp[ROTATIONRATE] \in {PyInt(0), None}

\* line 118: tmp.get(ROTATIONRATE) == 0
ReportsSSD(tmp) ==
    ROTATIONRATE \in DOMAIN tmp /\ tmp[ROTATIONRATE] = PyInt(0)

----------------------------------------------------------------------------
(* _linux_disks helpers *)

\* what opening and reading a flag file gives: its text, or an IOError
Readable(content) == [t |-> "file", data |-> content]
IOErr == [t |-> "IOError"]

\* the path glob.glob('/sys/block/*/queue/rotational') yields for a device
RotationalPath(dev) ==
    <<"/", "sys", "/", "block", "/", dev, "/", "queue", "/", "rotational">>

\* line 136: entry.split('/')[3]  (Python indexes from 0)
EntryDevice(entry) == StrSplit(entry, <<"/">>)[4]

\* a variant of Read1 that reads the whole file: entry_fp.read()
ReadAll(content) == content

\* line 137: entry_fp.read(1)
Read1(content) == IF content = <<>> THEN <<>> ELSE <<content[1]>>

\* lines 138-146: the lists after one flag has been classified
LinuxClassify(r, device, flag) ==
    IF flag = <<"0">> THEN [r EXCEPT !.SSDs = Append(@, device)]
    ELSE IF flag = <<"1">> THEN [r EXCEPT !.disks = Append(@, device)]
    ELSE r

----------------------------------------------------------------------------
(* _windows_disks helpers *)

\* str.splitlines() on "\n" line ends: no empty last line after a final "\n"
SplitLines(text) ==
    LET parts == StrSplit(text, <<NL>>)
    IN  IF parts[Len(parts)] = <<>> THEN SubSeq(parts, 1, Len(parts) - 1)
        ELSE parts

\* the first word of s, s having no leading whitespace
RECURSIVE FirstWord(_)
FirstWord(s) ==
    IF s = <<>> \/ s[1] \in Whitespace THEN <<>>
    ELSE <<s[1]>> \o FirstWord(Tail(s))

\* str.split() without a separator: the words between runs of whitespace
RECURSIVE Words(_)
Words(line) ==
    LET s == LStrip(line)
        w == FirstWord(s)
    IN  IF s = <<>> THEN <<>>
        ELSE <<w>> \o Words(Tail_from(s, Len(w) + 1))

\* a variant of ValidRow that does not check the device index
ValidRowUncheckedIndex(info) == Len(info) = 2 /\ IsDigit(info[2])

\* line 169: the row has two words, both numeric
ValidRow(info) == Len(info) = 2 /\ IsDigit(info[1]) /\ IsDigit(info[2])

\* line 171: r'\\.\PhysicalDrive{0}'.format(info[0])
PhysicalDrive(index) == <<"\\\\.\\PhysicalDrive">> \o index

\* lines 172-181: the lists after one valid row has been classified
WindowsClassify(r, device, mediatype) ==
    IF mediatype = <<"3">> THEN [r EXCEPT !.disks = Append(@, device)]
    ELSE IF mediatype = <<"4">> THEN [r EXCEPT !.SSDs = Append(@, device)]
    ELSE r

----------------------------------------------------------------------------
(* The inputs explored: what the host's data sources can hand to disks() *)

Platforms == {"freebsd", "linux", "windows", "other"}

AdaName == <<"a", "d", "a", "0">>
DaName == <<"d", "a", "1">>
CdName == <<"c", "d", "0">>

\* lines that `geom disk list` output is put together from: block
\* separators, names and rotation rates
GeomLines ==
    { <<>>,
      <<GEOMNAME, ":", " ">> \o AdaName,
      <<GEOMNAME, ":", " ">> \o DaName,
      <<GEOMNAME, ":", " ">> \o CdName,
      <<ROTATIONRATE, ":", " ", "0">>,
      <<ROTATIONRATE, ":", " ", "7", "2", "0", "0">>,
      <<ROTATIONRATE, ":", " ", "u", "n", "k">> }

GeomOutputs ==
    {StrJoin(<<NL>>, ls) : ls \in SeqsUpTo(GeomLines, MaxGeomLines)}

\* the attribute lines of one disk: aliased and coerced attributes, and
\* lines that carry a key inside other text
FieldLines ==
    { <<GEOMNAME, ":", " ">> \o AdaName,
      <<" ", " ", DESCR, ":", " ", "W", "D">>,
      <<IDENT, ":", " ", "S", "1">>,
      <<LUNID, ":", " ", "5", "0", "e">>,
      <<ROTATIONRATE, ":", " ", "0">>,
      <<ROTATIONRATE, ":", " ", "u", "n", "k">>,
      <<SECTORSIZE, ":", " ", "5", "1", "2">>,
      <<MEDIASIZE, ":", " ", "5", "1", "2", " ", "(", "5", "1", "2", "B", ")">>,
      <<MEDIASIZE, ":", " ", "(", "B", ")">>,
      <<DESCR, ":", " ", GEOMNAME, ":", " ">> \o CdName,
      <<"x", DESCR, ":", " ", "v">> }

FieldOutputs ==
    {StrJoin(<<NL>>, ls) : ls \in SeqsUpTo(FieldLines, MaxFieldLines)}

Devices == {"sda", "sdb", "nvme0n1"}

FlagContents == {<<"0", NL>>, <<"1", NL>>, <<"2", NL>>, <<>>}

\* glob lists each matching path once, in any order
GlobResults ==
    {g \in SeqsUpTo({RotationalPath(d) : d \in Devices}, MaxEntries) :
        \A a, b \in DOMAIN g : a # b => g[a] # g[b]}

SysfsStates ==
    UNION {{[glob |-> g, files |-> f] :
               f \in [Range(g) ->
                          {Readable(c) : c \in FlagContents} \cup {IOErr}]} : g \in GlobResults}

WmicRows ==
    { <<"DeviceID", " ", " ", "MediaType">>,
      <<>>,
      <<"0", " ", "3">>,
      <<"0", " ", "4">>,
      <<"1", " ", "4">>,
      <<"1", "0", " ", " ", "3", " ">>,
      <<"2", " ", "5">>,
      <<"a", " ", "3">>,
      <<"1", " ", "0", " ", "3">> }

WmicResults ==
    {[retcode |-> rc, stdout |-> StrJoin(<<NL>>, rows)] :
        rc \in {0, 1}, rows \in SeqsUpTo(WmicRows, MaxRows)}

NoSysfs == [glob |-> <<>>, files |-> <<>>]
NoCmd == [retcode |-> 1, stdout |-> <<>>]

----------------------------------------------------------------------------
(* disks() as a state machine *)

\* the state when disks() is called on a host whose geom prints one of outputs
InitWith(outputs) ==
    /\ platform \in Platforms
    /\ geomOut \in (IF platform = "freebsd" THEN outputs ELSE {<<>>})
    /\ sysfs \in (IF platform = "linux" THEN SysfsStates ELSE {NoSysfs})
    /\ cmdret \in (IF platform = "windows" THEN WmicResults ELSE {NoCmd})
    /\ pc = "call"
    /\ loop = <<>>
    /\ pos = 1
    /\ ret = None
    /\ parsed = <<>>
    /\ error = "none"

Init == InitWith(GeomOutputs)

InitFields == InitWith(FieldOutputs)

Inputs == <<platform, geomOut, sysfs, cmdret>>

\* lines 33-34, 95-99: disks() enters _freebsd_geom, which runs geom and
\* splits its output into blocks
FreebsdGeom ==
    /\ pc = "call" /\ platform = "freebsd"
    /\ ret' = [disks |-> EmptyDict, SSDs |-> <<>>]
    /\ loop' = StrSplit(geomOut, <<NL, NL>>)
    /\ pos' = 1
    /\ pc' = "parse_geom_attribs"
    /\ UNCHANGED <<Inputs, parsed, error>>

\* a variant of AddGeom that keeps SSDs out of disks, as the other branches do
AddGeomSplit(r, tmp) ==
    LET name == tmp[GEOMNAME].s
        rec == DictDel(tmp, GEOMNAME)
    IN  IF IsOptical(name) THEN r
        ELSE IF ReportsSSD(rec) THEN [r EXCEPT !.SSDs = Append(@, name)]
        ELSE [r EXCEPT !.disks = DictSet(@, name, rec)]

\* lines 113-120: the inventory after the attributes tmp of one block
AddGeom(r, tmp) ==
    LET name == tmp[GEOMNAME].s
        rec == DictDel(tmp, GEOMNAME)
    IN  IF IsOptical(name) THEN r
        ELSE [disks |-> DictSet(r.disks, name, rec),
              SSDs |-> IF ReportsSSD(rec) THEN Append(r.SSDs, name)
                       ELSE r.SSDs]

\* lines 101-123: one call of parse_geom_attribs; tmp.pop raises KeyError
\* when no line of the block gave a name
ParseGeomAttribs ==
    /\ pc = "parse_geom_attribs" /\ pos <= Len(loop)
    /\ LET tmp == GeomAttribs(loop[pos])
       IN  IF GEOMNAME \notin DOMAIN tmp
           THEN /\ pc' = "raised"
                /\ error' = "KeyError"
                /\ UNCHANGED <<ret, pos, parsed>>
           ELSE /\ ret' = AddGeom(ret, tmp)
                /\ parsed' = Append(parsed, tmp)
                /\ pos' = pos + 1
                /\ UNCHANGED <<pc, error>>
    /\ UNCHANGED <<Inputs, loop>>

\* lines 35-36, 132-134: disks() enters _linux_disks, which globs the flags
LinuxDisks ==
    /\ pc = "call" /\ platform = "linux"
    /\ ret' = [disks |-> <<>>, SSDs |-> <<>>]
    /\ loop' = sysfs.glob
    /\ pos' = 1
    /\ pc' = "linux_entry"
    /\ UNCHANGED <<Inputs, parsed, error>>

\* lines 135-146: one flag file; fopen and read have no handler around them
LinuxEntry ==
    /\ pc = "linux_entry" /\ pos <= Len(loop)
    /\ LET entry == loop[pos]
       IN  IF sysfs.files[entry] = IOErr
           THEN /\ pc' = "raised"
                /\ error' = "IOError"
                /\ UNCHANGED <<ret, pos>>
           ELSE /\ ret' = LinuxClassify(ret, EntryDevice(entry),
                                        Read1(sysfs.files[entry].data))
                /\ pos' = pos + 1
                /\ UNCHANGED <<pc, error>>
    /\ UNCHANGED <<Inputs, loop, parsed>>

\* lines 37-38, 151-167: disks() enters _windows_disks, which runs wmic; a
\* non-zero exit status leaves nothing to iterate over
WindowsDisks ==
    /\ pc = "call" /\ platform = "windows"
    /\ ret' = [disks |-> <<>>, SSDs |-> <<>>]
    /\ loop' = IF cmdret.retcode # 0 THEN <<>> ELSE SplitLines(cmdret.stdout)
    /\ pos' = 1
    /\ pc' = "windows_line"
    /\ UNCHANGED <<Inputs, parsed, error>>

\* lines 167-181: one line of the table
WindowsLine ==
    /\ pc = "windows_line" /\ pos <= Len(loop)
    /\ LET info == Words(loop[pos])
       IN  ret' = IF ~ValidRow(info) THEN ret
                  ELSE WindowsClassify(ret, PhysicalDrive(info[1]), info[2])
    /\ pos' = pos + 1
    /\ UNCHANGED <<Inputs, loop, pc, parsed, error>>

\* lines 39-40: no branch for this platform; disks() returns None
Unsupported ==
    /\ pc = "call" /\ platform = "other"
    /\ pc' = "done"
    /\ UNCHANGED <<Inputs, loop, pos, ret, parsed, error>>

\* lines 125, 147, 183: the loop is exhausted and the branch returns ret
Return ==
    /\ pc \in {"parse_geom_attribs", "linux_entry", "windows_line"}
    /\ pos > Len(loop)
    /\ pc' = "done"
    /\ UNCHANGED <<Inputs, loop, pos, ret, parsed, error>>

Next ==
    \/ FreebsdGeom
    \/ ParseGeomAttribs
    \/ LinuxDisks
    \/ LinuxEntry
    \/ WindowsDisks
    \/ WindowsLine
    \/ Unsupported
    \/ Return

Spec == Init /\ [][Next]_vars

SpecFields == InitFields /\ [][Next]_vars

----------------------------------------------------------------------------
(* Properties of _freebsd_geom *)

InFreebsdLoop == platform = "freebsd" /\ pc # "call"
FreebsdDone == platform = "freebsd" /\ pc = "done"

\* what parse_geom_attribs resolved for the k-th block of the geom output
BlockAttrs(k) == parsed[k]
BlockName(k) == BlockAttrs(k)[GEOMNAME].s
BlockRateIsZero(k) ==
    /\ ROTATIONRATE \in DOMAIN BlockAttrs(k)
    /\ BlockAttrs(k)[ROTATIONRATE] = PyInt(0)
HasCdPrefix(name) == Len(name) >= 2 /\ name[1] = "c" /\ name[2] = "d"

\* the blocks parse_geom_attribs has returned from
Processed == 1..(pos - 1)

\* names of the first n blocks that are no optical drive and report rate 0
RECURSIVE ZeroRateNames(_)
ZeroRateNames(n) ==
    IF n = 0 THEN <<>>
    ELSE IF ~HasCdPrefix(BlockName(n)) /\ BlockRateIsZero(n)
    THEN Append(ZeroRateNames(n - 1), BlockName(n))
    ELSE ZeroRateNames(n - 1)

\* C2 (as claimed): _freebsd_geom never raises, whatever geom prints: a block
\* without a resolvable name is skipped and the inventory is returned.
C2_NamelessBlockSkipped ==
    platform = "freebsd" => pc # "raised"

C4_OpticalExcluded ==
    InFreebsdLoop =>
        /\ \A n \in DOMAIN ret.disks : ~HasCdPrefix(n)
        /\ \A n \in Range(ret.SSDs) : ~HasCdPrefix(n)
        /\ \A k \in Processed :
              ~HasCdPrefix(BlockName(k)) => BlockName(k) \in DOMAIN ret.disks

\* a returned inventory after a 'cd' block with rotationrate 0 and a later disk
C4_Witness ==
    /\ FreebsdDone
    /\ \E j, k \in Processed :
          /\ j < k
          /\ HasCdPrefix(BlockName(j)) /\ BlockRateIsZero(j)
          /\ BlockName(j) \notin DOMAIN ret.disks
          /\ ~HasCdPrefix(BlockName(k)) /\ BlockName(k) \in DOMAIN ret.disks

AliasPairs ==
    { <<"descr", "device_model">>, <<"ident", "serial_number">>,
      <<"rotationrate", "media_RPM">>, <<"lunid", "WWN">> }

\* C5: in every Device Record of disks a canonical key is present iff its
\* alias is, and both hold the same value, a failed coercion (None) included.
C5_AliasMirrorsCanonical ==
    InFreebsdLoop =>
        \A n \in DOMAIN ret.disks : \A p \in AliasPairs :
            /\ p[1] \in DOMAIN ret.disks[n] <=> p[2] \in DOMAIN ret.disks[n]
            /\ p[1] \in DOMAIN ret.disks[n] =>
                   ret.disks[n][p[1]] = ret.disks[n][p[2]]

\* a returned record holding a failed coercion and a string under both keys
C5_Witness ==
    /\ FreebsdDone
    /\ \E n \in DOMAIN ret.disks :
          /\ "rotationrate" \in DOMAIN ret.disks[n]
          /\ ret.disks[n]["rotationrate"] = None
          /\ ret.disks[n]["media_RPM"] = None
          /\ "ident" \in DOMAIN ret.disks[n]
          /\ ret.disks[n]["serial_number"] = ret.disks[n]["ident"]

\* C9 (as claimed): the value stored under Mediasize is the integer read from
\* the first digit run of the line, or None; never the captured string.
C9_MediasizeIsInteger ==
    InFreebsdLoop =>
        \A n \in DOMAIN ret.disks :
            MEDIASIZE \in DOMAIN ret.disks[n] =>
                ret.disks[n][MEDIASIZE].t \in {"int", "None"}

\* the key of a line: what stands before its first colon, indentation aside
LineKey(line) ==
    LET s == LStrip(line)
        c == Find(s, <<":">>)
    IN  IF c = 0 THEN s ELSE SubSeq(s, 1, c - 1)

\* some processed block has a line whose key is exactly K
SomeLineHasKey(K) ==
    \E k \in Processed :
        \E line \in Range(StrSplit(loop[k], <<NL>>)) : LineKey(line) = <<K>>

\* some processed block has a line 'Geom name: <name>'
SomeLineNames(name) ==
    \E k \in Processed :
        \E line \in Range(StrSplit(loop[k], <<NL>>)) :
            LStrip(line) = <<GEOMNAME, ":", " ">> \o name

\* C10 (as claimed): an attribute, and the device name, is set only from a
\* line whose key is exactly that attribute's key.
C10_OnlyExactKeyMatches ==
    InFreebsdLoop =>
        \A n \in DOMAIN ret.disks :
            /\ SomeLineNames(n)
            /\ \A K \in DOMAIN ret.disks[n] \cap Range(geom_attribs) :
                   SomeLineHasKey(K)

----------------------------------------------------------------------------
(* Properties of _linux_disks *)

InLinuxLoop == platform = "linux" /\ pc # "call"

\* the 4th segment of the n-th discovered path, and the first character of
\* its flag file
PathDevice(n) == <<sysfs.glob[n][6]>>
FlagReads(n, c) ==
    /\ sysfs.files[sysfs.glob[n]] # IOErr
    /\ sysfs.files[sysfs.glob[n]].data # <<>>
    /\ sysfs.files[sysfs.glob[n]].data[1] = c

\* devices among the first n discovered paths whose flag reads c
RECURSIVE DevicesReading(_, _)
DevicesReading(n, c) ==
    IF n = 0 THEN <<>>
    ELSE IF FlagReads(n, c) THEN Append(DevicesReading(n - 1, c), PathDevice(n))
    ELSE DevicesReading(n - 1, c)

\* C6: SSDs lists, once each and in discovery order, the devices whose flag
\* reads '0', disks those whose flag reads '1'; no other device is listed.
C6_FlagDecidesList ==
    InLinuxLoop =>
        /\ ret.SSDs = DevicesReading(pos - 1, "0")
        /\ ret.disks = DevicesReading(pos - 1, "1")
        /\ \A a, b \in DOMAIN ret.SSDs : a # b => ret.SSDs[a] # ret.SSDs[b]
        /\ \A a, b \in DOMAIN ret.disks : a # b => ret.disks[a] # ret.disks[b]
        /\ Range(ret.SSDs) \cap Range(ret.disks) = {}

\* a returned inventory after a '0' flag and a flag that is neither '0' nor '1'
C6_Witness ==
    /\ platform = "linux" /\ pc = "done"
    /\ Len(ret.SSDs) = 1 /\ ret.disks = <<>>
    /\ Len(loop) = 2
    /\ \E n \in 1..2 : ~FlagReads(n, "0") /\ ~FlagReads(n, "1")

\* C7 (as claimed): a flag file that cannot be opened or read is skipped and
\* _linux_disks returns the rest; it never raises.
C7_UnreadableFlagSkipped ==
    platform = "linux" => pc # "raised"

----------------------------------------------------------------------------
(* Properties of _windows_disks *)

InWindowsLoop == platform = "windows" /\ pc # "call"

\* the n-th line of stdout is '<digits> <digits>' with media type m
RowOfType(n, m) ==
    LET w == Words(loop[n])
    IN  Len(w) = 2 /\ IsDigit(w[1]) /\ w[2] = <<m>>

\* identifiers of the rows of type m among the first n lines
RECURSIVE DrivesOfType(_, _)
DrivesOfType(n, m) ==
    IF n = 0 THEN <<>>
    ELSE IF RowOfType(n, m)
    THEN Append(DrivesOfType(n - 1, m),
                <<"\\\\.\\PhysicalDrive">> \o Words(loop[n])[1])
    ELSE DrivesOfType(n - 1, m)

\* C8: with exit status 0, disks is the list, in row order, of
\* \\.\PhysicalDrive<d> for the rows '<d> 3' and SSDs that for the rows
\* '<d> 4'; every other line adds nothing and stops nothing.
C8_MediaTypeDecidesList ==
    (InWindowsLoop /\ cmdret.retcode = 0) =>
        /\ loop = SplitLines(cmdret.stdout)
        /\ ret.disks = DrivesOfType(pos - 1, "3")
        /\ ret.SSDs = DrivesOfType(pos - 1, "4")

\* a returned inventory where a malformed line stands before a valid row
C8_Witness ==
    /\ platform = "windows" /\ pc = "done" /\ cmdret.retcode = 0
    /\ Len(loop) = 2
    /\ ~RowOfType(1, "3") /\ ~RowOfType(1, "4")
    /\ RowOfType(2, "3")
    /\ Len(ret.disks) = 1 /\ ret.SSDs = <<>>

----------------------------------------------------------------------------
(* Properties of disks() across the platforms *)

Returned == pc = "done" /\ platform # "other"

DiskIds == IF platform = "freebsd" THEN DOMAIN ret.disks ELSE Range(ret.disks)

\* C1 (as claimed): no identifier is both in disks and in SSDs.
C1_NeverInBoth ==
    Returned => DiskIds \cap Range(ret.SSDs) = {}

\* C1 (amended): on Linux no device is in both lists; on Windows an identifier
\* is in both only if stdout has a '<d> 3' row and a '<d> 4' row for it; on
\* FreeBSD disks holds every device, so each element of SSDs is a key of disks.
C1_OverlapByPlatform ==
    Returned =>
        /\ platform = "linux" => DiskIds \cap Range(ret.SSDs) = {}
        /\ platform = "windows" =>
              \A id \in DiskIds \cap Range(ret.SSDs) :
                  \E a, b \in DOMAIN loop :
                      /\ RowOfType(a, "3") /\ RowOfType(b, "4")
                      /\ Words(loop[a])[1] = Words(loop[b])[1]
                      /\ id = <<"\\\\.\\PhysicalDrive">> \o Words(loop[a])[1]
        /\ platform = "freebsd" => Range(ret.SSDs) \subseteq DiskIds

\* a returned FreeBSD inventory with an SSD
C1_Witness ==
    /\ FreebsdDone
    /\ ret.SSDs # <<>>
    /\ Range(ret.SSDs) \subseteq DOMAIN ret.disks

====
